---- MODULE Spec2Model ----
(***************************************************************************)
(* A model of figure_functions.py: the binning helpers create_dist,        *)
(* cat_clients and avg_cats, the colour allocator find_color, and the      *)
(* figure builder create_figure / create_cat_plots.                        *)
(*                                                                         *)
(* Numbers.  Every x value, bin edge and interval_perc is a fixed-point    *)
(* number counted in tenths (505 stands for 50.5, an interval_perc of 1    *)
(* for 0.1), so that the arithmetic of create_dist is exact integer        *)
(* arithmetic.  A mean and a bar height are exact fractions <<num, den>>.  *)
(*                                                                         *)
(* Arrays.  A numpy array is [kind |-> "array", elems |-> <<...>>], or,    *)
(* for the result of np.arange, [kind |-> "arange", start, step, len]:     *)
(* the array whose i-th element (from 1) is start + (i-1)*step.  ALen and  *)
(* At read both.  The counts of np.histogram are kept as the function      *)
(* from the 0-based indices of the non-empty bins to their counts.        *)
(***************************************************************************)
EXTENDS Integers, Sequences, FiniteSets, TLC

VARIABLES
    pc,             \* position of the running call
    df,             \* the table: [columns, rows]
    x_bar,          \* the bin edges (None until built or given)
    interval_perc,  \* create_dist's interval_perc, in tenths
    second_y_var,   \* create_figure's second_y_var (None or a column)
    categorical_var,\* create_figure's categorical_var (None or a column)
    color_used,     \* find_color's memory: palette indices handed out
    color,          \* the colour find_color returned last
    ret,            \* where the running find_color call returns to
    data,           \* create_figure's trace list
    layout,         \* create_figure's layout: the keys it holds
    trace_cats,     \* create_cat_plots' trace list
    todo,           \* create_cat_plots' loop: the values still to visit
    result          \* what the last helper call returned (or raised)

vars == <<pc, df, x_bar, interval_perc, second_y_var, categorical_var,
          color_used, color, ret, data, layout, trace_cats, todo, result>>

None == "None"

\* an absent array argument (x_bar=None)
NoArray == [kind |-> "None"]

\* ---------------------------------------------------------------- bounds

MaxRows == 4
MaxCats == 7
MaxHelperRows == 2
MaxEdge == 3

\* ------------------------------------------------------------ arithmetic

Abs(n) == IF n < 0 THEN -n ELSE n

\* math.ceil(a / b) for b > 0, a of either sign
Ceil(a, b) == -((-a) \div b)

RECURSIVE GCD(_, _)
GCD(a, b) == IF b = 0 THEN a ELSE GCD(b, a % b)

\* the exact quotient num / den (den > 0) in lowest terms
Frac(num, den) ==
    LET g == GCD(Abs(num), den)
    IN  <<num \div g, den \div g>>

RECURSIVE SeqSum(_)
SeqSum(s) == IF s = <<>> THEN 0 ELSE Head(s) + SeqSum(Tail(s))

SetMin(S) == CHOOSE m \in S : \A n \in S : m <= n
SetMax(S) == CHOOSE m \in S : \A n \in S : m >= n

RECURSIVE SortedSeq(_)
SortedSeq(S) ==
    IF S = {} THEN <<>>
    ELSE LET m == SetMin(S) IN <<m>> \o SortedSeq(S \ {m})

Range(s) == {s[i] : i \in DOMAIN s}

\* ---------------------------------------------------------------- tables

Column(t, name) == [i \in DOMAIN t.rows |-> t.rows[i][name]]

\* Series.mean(): the arithmetic mean of a non-empty sequence of values
Mean(vals) == Frac(SeqSum(vals), Len(vals))

\* df[df[col] == v]: the rows whose column col holds v, in order
RowsWhere(t, col, v) ==
    [t EXCEPT !.rows = SelectSeq(t.rows, LAMBDA r : r[col] = v)]

\* Series.unique() gone wrong: the distinct values in ascending order
UniqueSorted(s) == SortedSeq(Range(s))

\* Series.unique(): the distinct values in order of first appearance
RECURSIVE Unique(_)
Unique(s) ==
    IF s = <<>> THEN <<>>
    ELSE LET front == Unique(SubSeq(s, 1, Len(s) - 1))
             last == s[Len(s)]
         IN  IF last \in Range(front) THEN front ELSE Append(front, last)

\* the indices of rows ordered by column `by`, ties in row order
RECURSIVE SortIndices(_, _)
SortIndices(keys, left) ==
    IF left = {} THEN <<>>
    ELSE LET m == CHOOSE i \in left : \A j \in left :
                      keys[i] < keys[j] \/ (keys[i] = keys[j] /\ i <= j)
         IN  <<m>> \o SortIndices(keys, left \ {m})

\* DataFrame.sort_values(by=[by]); a missing column raises KeyError
SortValues(t, by) ==
    IF by \notin t.columns THEN [error |-> "KeyError"]
    ELSE LET order == SortIndices(Column(t, by), DOMAIN t.rows)
         IN  [t EXCEPT !.rows = [i \in DOMAIN order |-> t.rows[order[i]]]]

\* df.groupby([by])[col].mean(): a Series, here the sequence of
\* <<key, mean>> in its index order: groupby sorts the keys ascending
GroupMean(t, by, col) ==
    LET keys == SortedSeq(Range(Column(t, by)))
    IN  [k \in DOMAIN keys |->
            <<keys[k], Mean(Column(RowsWhere(t, by, keys[k]), col))>>]

\* ---------------------------------------------------------------- arrays

ALen(a) == IF a.kind = "arange" THEN a.len ELSE Len(a.elems)

At(a, i) == IF a.kind = "arange" THEN a.start + (i - 1) * a.step ELSE a.elems[i]

\* np.arange(start, stop, step): ceil((stop - start) / step) elements, none
\* when that is not positive; a step of 0 raises
Arange(start, stop, step) ==
    IF step = 0 THEN [error |-> "ZeroDivisionError"]
    ELSE LET n == IF step > 0 THEN Ceil(stop - start, step)
                  ELSE Ceil(start - stop, -step)
         IN  [kind |-> "arange", start |-> start, step |-> step,
              len |-> IF n > 0 THEN n ELSE 0]

IsError(v) == "error" \in DOMAIN v

\* np.histogram's check of its bins: they must increase monotonically
Monotonic(a) ==
    IF a.kind = "arange" THEN a.len <= 1 \/ a.step >= 0
    ELSE \A i \in 1 .. Len(a.elems) - 1 : a.elems[i] <= a.elems[i + 1]

\* the greatest i in lo..hi with At(a, i) <= v (a sorted, At(a, lo) <= v):
\* the binary search of np.searchsorted
RECURSIVE SearchSorted(_, _, _, _)
SearchSorted(a, v, lo, hi) ==
    IF lo >= hi THEN lo
    ELSE LET mid == (lo + hi + 1) \div 2
         IN  IF At(a, mid) <= v THEN SearchSorted(a, v, mid, hi)
             ELSE SearchSorted(a, v, lo, mid - 1)

\* np.histogram: the 0-based bin that counts v, or -1 when none does.  Bin i
\* is edges[i] <= v < edges[i+1]; the last bin also holds its right edge.
BinOf(v, a) ==
    IF ALen(a) < 2 \/ v < At(a, 1) \/ v > At(a, ALen(a)) THEN -1
    ELSE SearchSorted(a, v, 1, ALen(a) - 1) - 1

\* np.histogram(values, a)[0]: [counts |-> the counts of the non-empty bins]
Histogram(values, a) ==
    IF ~Monotonic(a) THEN [error |-> "ValueError"]
    ELSE LET bin == [i \in DOMAIN values |-> BinOf(values[i], a)]
             hit == Range(bin) \ {-1}
         IN  [counts |->
                [b \in hit |-> Cardinality({i \in DOMAIN values : bin[i] = b})]]

\* --------------------------------------------------------------- palette

\* find_color's AXA_colors; the alpha 0.8 is counted in tenths
AXA_colors ==
    << <<0, 0, 143, 8>>, <<252, 211, 133, 8>>, <<2, 113, 128, 8>>,
       <<225, 150, 170, 8>>, <<0, 174, 198, 8>>, <<145, 65, 70, 8>>,
       <<52, 60, 61, 8>>, <<181, 208, 238, 8>> >>

\* np.random.randint(0, 8): the values it can draw
RandInt == 0 .. Len(AXA_colors) - 1

\* create_dist's default interval_perc=0.1, in tenths
DefaultIntervalPerc == 1

\* dict(color='rgba' + str(AXA_colors[temp])), temp counted from 0
ColorOf(temp) == [color |-> <<"rgba", AXA_colors[temp + 1]>>]

\* ---------------------------------------------------------- create_dist

\* the bin edges create_dist builds when it is given none
BuildEdges(t, x_var, ip) ==
    IF t.rows = <<>> THEN [error |-> "ValueError"]   \* math.ceil(nan)
    ELSE LET max == SetMax(Range(Column(t, x_var)))
             temp == Ceil(max, 1000)
             interval == ip * temp
         IN  Arange(0, 10 * (Ceil(max, 1000) * 100 + temp), interval)

\* (count * 100 / len(df)) * 0.01: the heights of the non-empty bins in nz,
\* the height of every other bin in rest
Heights(counts, n) ==
    [nz |-> [b \in DOMAIN counts |-> Frac(counts[b], n)],
     rest |-> IF n = 0 THEN "nan" ELSE <<0, 1>>]

BarTrace(edges, y_bar, marker, name) ==
    [type |-> "bar", x |-> edges, y |-> y_bar, marker |-> marker,
     opacity |-> 3, name |-> name]

\* create_dist(df, x_var, color, x_bar, interval_perc):
\* [trace, x_bar], or [error] when a library call raises
create_dist(t, x_var, marker, xb, ip) ==
    LET edges == IF xb = NoArray THEN BuildEdges(t, x_var, ip) ELSE xb
    IN  IF IsError(edges) THEN edges
        ELSE LET count == Histogram(Column(t, x_var), edges)
             IN  IF IsError(count) THEN count
                 ELSE [trace |-> BarTrace(edges,
                                          Heights(count.counts, Len(t.rows)),
                                          marker, <<"Dist. ", x_var>>),
                       x_bar |-> edges]

\* ---------------------------------------------------------- cat_clients

\* Series.between(left, right): both ends included
Between(v, left, right) == left <= v /\ v <= right

\* np.select(criteria, values, 0) for one row: the value of the first
\* criterion that holds, 0 when none does
CatOf(v, xb) ==
    LET holds == {i \in 0 .. ALen(xb) - 2 :
                     Between(v, At(xb, i + 1), At(xb, i + 2))}
    IN  IF holds = {} THEN 0 ELSE SetMin(holds)

\* cat_clients(df, x_var, x_bar): df with the column 'cat';
\* np.select raises on an empty list of criteria
cat_clients(t, x_var, xb) ==
    IF ALen(xb) < 2 THEN [error |-> "ValueError"]
    ELSE [columns |-> t.columns \cup {"cat"},
          rows |-> [i \in DOMAIN t.rows |->
                       [c \in t.columns \cup {"cat"} |->
                           IF c = "cat" THEN CatOf(t.rows[i][x_var], xb)
                           ELSE t.rows[i][c]]]]

\* ------------------------------------------------------------- avg_cats

\* avg_cats(df, x_var, y_var): [x, y], the per-category means
avg_cats(t, x_var, y_var) ==
    LET sorted == SortValues(t, "pr_total")
    IN  IF IsError(sorted) THEN sorted
        ELSE [x |-> GroupMean(sorted, "cat", x_var),
              y |-> GroupMean(sorted, "cat", y_var)]

\* ------------------------------------------------------- create_scatter

create_scatter(x, y, var_name, marker, axis_num) ==
    [type |-> "scatter", x |-> x, y |-> y, mode |-> "lines+markers",
     marker |-> marker, name |-> var_name, yaxis |-> <<"y", axis_num>>]

\* ------------------------------------------------- the helpers, called
\* A caller builds the distribution of column x (with edges of its own or
\* those create_dist builds), categorises the rows and averages them.

HelperXs == {-1500, -50, 0, 10, 15, 20, 505}
HelperYs == {2, 5}
IntervalPercs == {1, 5, 25}

HelperColumns == {{"x", "y"}, {"x", "y", "pr_total"}}

HelperRow(cols, x, y) ==
    [c \in cols |-> IF c = "x" THEN x ELSE IF c = "y" THEN y ELSE x]

RECURSIVE SeqsUpTo(_, _)
SeqsUpTo(S, n) ==
    IF n = 0 THEN {<<>>}
    ELSE LET shorter == SeqsUpTo(S, n - 1)
         IN  shorter \cup {Append(s, e) : s \in {q \in shorter : Len(q) = n - 1},
                                            e \in S}

HelperTables ==
    {[columns |-> cols, rows |-> [i \in DOMAIN xy |-> HelperRow(cols, xy[i][1], xy[i][2])]] :
        cols \in HelperColumns,
        xy \in SeqsUpTo(HelperXs \X HelperYs, MaxHelperRows) \ {<<>>}}

\* the arrays of edges a caller hands over: every strictly increasing
\* sequence of two to MaxEdge of the edges 0.0, 1.0, 2.0, 3.0
HelperEdges ==
    {[kind |-> "array", elems |-> e] :
        e \in {q \in SeqsUpTo({0, 10, 20, 30}, MaxEdge) :
                  /\ Len(q) >= 2
                  /\ \A i \in 1 .. Len(q) - 1 : q[i] < q[i + 1]}}

InitHelpers ==
    /\ pc = "create_dist"
    /\ df \in HelperTables
    /\ \/ x_bar = NoArray /\ interval_perc \in IntervalPercs
       \/ x_bar \in HelperEdges /\ interval_perc = DefaultIntervalPerc
    /\ second_y_var = None
    /\ categorical_var = None
    /\ color_used = <<>>
    /\ color = ColorOf(0)
    /\ ret = None
    /\ data = <<>>
    /\ layout = {}
    /\ trace_cats = <<>>
    /\ todo = <<>>
    /\ result = [call |-> None]

CallCreateDist ==
    /\ pc = "create_dist"
    /\ LET r == create_dist(df, "x", color, x_bar, interval_perc)
       IN  /\ result' = [call |-> "create_dist", x_bar |-> x_bar, ret |-> r]
           /\ IF IsError(r)
              THEN pc' = "raised" /\ UNCHANGED x_bar
              ELSE pc' = "cat_clients" /\ x_bar' = r.x_bar
    /\ UNCHANGED <<df, interval_perc, second_y_var, categorical_var,
                   color_used, color, ret, data, layout, trace_cats, todo>>

CallCatClients ==
    /\ pc = "cat_clients"
    /\ LET r == cat_clients(df, "x", x_bar)
       IN  IF IsError(r)
           THEN /\ pc' = "raised"
                /\ result' = [call |-> "cat_clients", ret |-> r]
                /\ UNCHANGED df
           ELSE pc' = "avg_cats" /\ df' = r /\ UNCHANGED result
    /\ UNCHANGED <<x_bar, interval_perc, second_y_var, categorical_var,
                   color_used, color, ret, data, layout, trace_cats, todo>>

CallAvgCats ==
    /\ pc = "avg_cats"
    /\ LET r == avg_cats(df, "x", "y")
       IN  /\ result' = [call |-> "avg_cats", ret |-> r]
           /\ pc' = IF IsError(r) THEN "raised" ELSE "returned"
    /\ UNCHANGED <<df, x_bar, interval_perc, second_y_var, categorical_var,
                   color_used, color, ret, data, layout, trace_cats, todo>>

NextHelpers == CallCreateDist \/ CallCatClients \/ CallAvgCats

HelperSpec == InitHelpers /\ [][NextHelpers]_vars

\* ----------------------------------------------------------- find_color

\* find_color's loop gone wrong: no draw is ever rejected
RejectedNever(temp, used) == FALSE

\* the test of find_color's loop: while temp in color_used
Rejected(temp, used) == temp \in Range(used)

\* lines 176-180, the loop left with the draw temp: the colour is made and
\* the index remembered
find_color(temp) ==
    /\ ~Rejected(temp, color_used)
    /\ color' = ColorOf(temp)
    /\ color_used' = Append(color_used, temp)

\* lines 173-174, one more turn of the loop: the draw is of an index handed
\* out before, and is drawn again.  temp is read by the loop's test alone, so
\* a rejected draw leaves nothing behind: the step changes no variable.
FindColorRetry ==
    /\ pc = "find_color"
    /\ {temp \in RandInt : Rejected(temp, color_used)} # {}
    /\ UNCHANGED vars

\* find_color returns to create_figure (line 213 or 240)
FindColorReturn ==
    /\ pc = "find_color"
    /\ ret \in {"primary", "second"}
    /\ \E temp \in RandInt : find_color(temp)
    /\ pc' = ret
    /\ UNCHANGED <<df, x_bar, interval_perc, second_y_var, categorical_var,
                   ret, data, layout, trace_cats, todo, result>>

\* -------------------------------------------------------- create_figure

\* the tables create_figure is given: the first n of these rows, for every
\* n up to MaxRows and for the n that holds MaxCats distinct values of c
FigureXs == <<500, 120, 505, 1000, 36, 2500, 999, 7, 1200, 640>>
FigureYs == <<3, 1, 4, 1, 5, 9, 2, 6, 5, 3>>
FigureY2s == <<20, 70, 10, 80, 20, 80, 10, 80, 20, 80>>
FigureCs == <<3, 1, 3, 4, 2, 8, 5, 7, 6, 9>>

FigureColumns == {{"x", "y", "y2", "c"}, {"x", "y", "y2", "c", "pr_total"}}

FigureRow(cols, i) ==
    [c \in cols |->
        CASE c = "x" -> FigureXs[i]
          [] c = "y" -> FigureYs[i]
          [] c = "y2" -> FigureY2s[i]
          [] c = "c" -> FigureCs[i]
          [] OTHER -> FigureXs[i]]

FigureTables ==
    {[columns |-> cols, rows |-> [i \in 1 .. n |-> FigureRow(cols, i)]] :
        cols \in FigureColumns, n \in (1 .. MaxRows) \cup {MaxCats + 1}}

Init ==
    /\ pc = "create_figure"
    /\ df \in FigureTables
    /\ x_bar = NoArray
    /\ interval_perc = DefaultIntervalPerc
    /\ second_y_var \in {None, "y2"}
    /\ categorical_var \in {None, "c"}
    /\ color_used = <<>>
    /\ color = [color |-> None]
    /\ ret = None
    /\ data = <<>>
    /\ layout = {}
    /\ trace_cats = <<>>
    /\ todo = <<>>
    /\ result = [call |-> None]

\* lines 209-213: the colour memory is emptied, the primary colour asked for
CreateFigure ==
    /\ pc = "create_figure"
    /\ color_used' = <<>>
    /\ pc' = "find_color"
    /\ ret' = "primary"
    /\ UNCHANGED <<df, x_bar, interval_perc, second_y_var, categorical_var,
                   color, data, layout, trace_cats, todo, result>>

\* where create_figure goes once the primary series is in data
AfterPrimary ==
    IF second_y_var # None THEN "second"
    ELSE IF categorical_var # None THEN "create_cat_plots" ELSE "plot"

\* lines 215-238: the primary bar and scatter, the layout
Primary ==
    /\ pc = "primary"
    /\ LET dist == create_dist(df, "x", color, NoArray, interval_perc)
           cats == IF IsError(dist) THEN dist
                   ELSE cat_clients(df, "x", dist.x_bar)
           avg == IF IsError(cats) THEN cats ELSE avg_cats(cats, "x", "y")
       IN  /\ df' = IF IsError(cats) THEN df ELSE cats
           /\ x_bar' = IF IsError(dist) THEN x_bar ELSE dist.x_bar
           /\ IF IsError(avg)
              THEN /\ pc' = "raised"
                   /\ result' = [call |-> "create_figure", ret |-> avg]
                   /\ UNCHANGED <<data, layout, ret>>
              ELSE /\ data' = <<dist.trace,
                                create_scatter(avg.x, avg.y, "x", color, 1)>>
                   /\ layout' = {"title", "xaxis", "yaxis", "barmode"}
                   /\ IF AfterPrimary = "second"
                      THEN pc' = "find_color" /\ ret' = "second"
                      ELSE pc' = AfterPrimary /\ UNCHANGED ret
                   /\ UNCHANGED result
    /\ UNCHANGED <<interval_perc, second_y_var, categorical_var, color_used,
                   color, trace_cats, todo>>

\* lines 239-246: the secondary scatter and bar, the second y axis
Second ==
    /\ pc = "second"
    /\ LET avg == avg_cats(df, "x", second_y_var)
           dist == create_dist(df, second_y_var, color, x_bar, interval_perc)
       IN  /\ data' = data \o <<create_scatter(avg.x, avg.y, second_y_var,
                                                color, 2),
                                 dist.trace>>
           /\ x_bar' = dist.x_bar
    /\ layout' = layout \cup {"yaxis2"}
    /\ pc' = IF categorical_var # None THEN "create_cat_plots" ELSE "plot"
    /\ UNCHANGED <<df, interval_perc, second_y_var, categorical_var,
                   color_used, color, ret, trace_cats, todo, result>>

\* lines 130-134 and 140: create_cat_plots is entered, its loop started
CreateCatPlots ==
    /\ pc = "create_cat_plots"
    /\ trace_cats' = <<>>
    /\ todo' = Unique(Column(df, categorical_var))
    /\ pc' = "find_color"
    /\ ret' = "cat"
    /\ UNCHANGED <<df, x_bar, interval_perc, second_y_var, categorical_var,
                   color_used, color, data, layout, result>>

\* what lines 135-139 compute for one categorical value v: the means per
\* interval and the bar heights
CatSeries(v) ==
    LET part == RowsWhere(df, categorical_var, v)
        count == Histogram(Column(part, "x"), x_bar)
    IN  [temp_x |-> GroupMean(part, "cat", "x"),
         temp_y |-> GroupMean(part, "cat", "y"),
         y_bar |-> Heights(count.counts, Len(df.rows))]

\* the loop body gone wrong: the value's scatter alone, its bar forgotten
CatTracesScatterOnly(v, s, marker) ==
    <<create_scatter(s.temp_x, s.temp_y, v, marker, 1)>>

\* the two traces of one categorical value v (lines 142-148)
CatTraces(v, s, marker) ==
    <<create_scatter(s.temp_x, s.temp_y, v, marker, 1),
      BarTrace(x_bar, s.y_bar, marker, v)>>

\* lines 135-150 and 251: find_color returns into the loop, the value's two
\* traces are added, and the loop turns again or create_cat_plots returns
CatPlot ==
    /\ pc = "find_color"
    /\ ret = "cat"
    /\ LET v == Head(todo)
           s == CatSeries(v)
       IN  \E temp \in RandInt :
              /\ find_color(temp)
              /\ trace_cats' = trace_cats \o CatTraces(v, s, color')
    /\ todo' = Tail(todo)
    /\ IF Tail(todo) # <<>>
       THEN pc' = "find_color" /\ UNCHANGED data
       ELSE pc' = "plot" /\ data' = data \o trace_cats'
    /\ UNCHANGED <<df, x_bar, interval_perc, second_y_var, categorical_var,
                   ret, layout, result>>

\* pc = "plot" is line 253: plotly.offline.plot is called with data and
\* layout, and create_figure is over
Next ==
    \/ CreateFigure
    \/ FindColorRetry
    \/ FindColorReturn
    \/ Primary
    \/ Second
    \/ CreateCatPlots
    \/ CatPlot

Spec == Init /\ [][Next]_vars

\* ================================================================ claims

\* the distinct values of the categorical column
CatValues == Range(Column(df, "c"))

\* the rows in which a value of the categorical column appears first
FirstRows == {i \in DOMAIN df.rows :
                 \A h \in 1 .. i - 1 : df.rows[h]["c"] # df.rows[i]["c"]}

RECURSIVE SetSum(_, _)
SetSum(f, S) ==
    IF S = {} THEN 0
    ELSE LET e == CHOOSE e \in S : TRUE IN f[e] + SetSum(f, S \ {e})

\* C1: the 'cat' that cat_clients gives a row is the index of the histogram
\* bin in which create_dist (np.histogram over the same x_bar) counts the
\* row's x value, for every row the histogram counts, a row whose value is
\* an interior bin edge included.
C1_CatIsHistogramBin ==
    pc = "avg_cats" =>
        \A i \in DOMAIN df.rows :
            LET bin == BinOf(df.rows[i]["x"], x_bar)
            IN  bin # -1 => df.rows[i]["cat"] = bin

\* series is one entry per category that has a row, in ascending order of
\* the category, each the arithmetic mean of column col over its rows
IsGroupMeans(series, col) ==
    LET cats == Range(Column(df, "cat"))
    IN  /\ Len(series) = Cardinality(cats)
        /\ \A k \in DOMAIN series :
              LET rows == {i \in DOMAIN df.rows : df.rows[i]["cat"] = series[k][1]}
                  mean == series[k][2]
              IN  /\ series[k][1] \in cats
                  /\ k > 1 => series[k - 1][1] < series[k][1]
                  /\ mean[2] > 0
                  /\ mean[1] * Cardinality(rows)
                        = mean[2] * SetSum(Column(df, col), rows)

\* C2: for every table with the columns x_var, y_var and 'cat', avg_cats
\* returns two series with one entry per non-empty category, ascending, the
\* x entry the mean of x_var and the y entry the mean of y_var.
C2_AvgCatsReturnsMeans ==
    result.call = "avg_cats" =>
        /\ ~IsError(result.ret)
        /\ IsGroupMeans(result.ret.x, "x")
        /\ IsGroupMeans(result.ret.y, "y")

\* C3 as stated: create_cat_plots returns exactly k traces for k distinct
\* values of the categorical column.
C3_OneTracePerValue ==
    (pc = "plot" /\ categorical_var # None) =>
        Len(trace_cats) = Cardinality(CatValues)

\* C3 as amended: every turn of create_cat_plots' loop adds two traces
\* for its value, a scatter then a bar, both named after the value; so the
\* list it returns holds exactly 2k traces for k distinct values.
C3_TwoTracesPerValue ==
    (categorical_var # None /\ ret = "cat") =>
        /\ Len(trace_cats) = 2 * (Cardinality(CatValues) - Len(todo))
        /\ pc = "plot" => Len(trace_cats) = 2 * Cardinality(CatValues)
        /\ \A j \in 1 .. Len(trace_cats) \div 2 :
              /\ trace_cats[2 * j - 1].type = "scatter"
              /\ trace_cats[2 * j].type = "bar"
              /\ trace_cats[2 * j - 1].name = trace_cats[2 * j].name
              /\ trace_cats[2 * j].name \in CatValues
              /\ \A h \in 1 .. j - 1 :
                    trace_cats[2 * h].name # trace_cats[2 * j].name

\* create_cat_plots has returned for a column in which a value repeats
C3_Witness ==
    /\ pc = "plot"
    /\ categorical_var # None
    /\ Cardinality(CatValues) >= 2
    /\ Cardinality(CatValues) < Len(df.rows)
    /\ Len(trace_cats) = 2 * Cardinality(CatValues)

\* the series (1: primary, 2: the next, ...) of the i-th trace of data
SeriesOf(i) == (i + 1) \div 2

C4_Distinct ==
    /\ \A i \in DOMAIN color_used : color_used[i] \in 0 .. 7
    /\ \A i, j \in DOMAIN color_used : i # j => color_used[i] # color_used[j]
    /\ color_used # <<>> =>
          color = [color |-> <<"rgba", AXA_colors[color_used[Len(color_used)] + 1]>>]
    /\ \A i, j \in DOMAIN data :
          SeriesOf(i) # SeriesOf(j) => data[i].marker # data[j].marker
    /\ \A i, j \in DOMAIN trace_cats :
          SeriesOf(i) # SeriesOf(j) => trace_cats[i].marker # trace_cats[j].marker

C4_Call ==
    \/ color_used' = color_used
    \/ \E index \in 0 .. 7 :
          /\ \A i \in DOMAIN color_used : color_used[i] # index
          /\ color_used' = Append(color_used, index)
          /\ color' = [color |-> <<"rgba", AXA_colors[index + 1]>>]

\* C4: from the empty color_used of one create_figure call on, color_used
\* holds pairwise distinct palette indices in 0..7, each find_color call
\* appends exactly one index that was not in the list and returns that
\* index's palette entry, and no two series of the figure share a colour.
C4_ColorsAreDistinct == [](C4_Distinct) /\ [][C4_Call]_vars

\* a figure with three or more series has been built
C4_Witness ==
    /\ pc = "plot"
    /\ Len(color_used) >= 3
    /\ Len(data) = 2 * Len(color_used)

\* C5: every find_color call made while the figure is built leaves its
\* 'while temp in color_used' loop, for any number of distinct categorical
\* values: whenever a call is in the loop, some draw of randint(0, 8) is
\* not in color_used.
C5_FindColorLeavesLoop ==
    pc = "find_color" => \E temp \in RandInt : ~Rejected(temp, color_used)

\* C6: called without x_bar on a table with a row, create_dist builds a
\* strictly increasing sequence of two or more edges that starts at 0, has
\* the constant step interval_perc * ceil(max / 100) and ends at or above
\* max, whatever the sign of max.
C6_BuiltEdges ==
    (result.call = "create_dist" /\ result.x_bar = NoArray) =>
        /\ ~IsError(result.ret)
        /\ LET edges == result.ret.x_bar
               max == SetMax(Range(Column(df, "x")))
               step == interval_perc * Ceil(max, 1000)
           IN  /\ ALen(edges) >= 2
               /\ At(edges, 1) = 0
               /\ \A i \in 1 .. ALen(edges) - 1 :
                     /\ At(edges, i + 1) - At(edges, i) = step
                     /\ At(edges, i) < At(edges, i + 1)
               /\ At(edges, ALen(edges)) >= max

\* the heights of trace are, bin by bin, the share of the table's rows
\* that np.histogram counts in the bin
HeightsAreShares(trace, edges) ==
    LET n == Len(df.rows)
        counted(b) == Cardinality({i \in DOMAIN df.rows :
                                      BinOf(df.rows[i]["x"], edges) = b})
    IN  /\ trace.y.rest = <<0, 1>>
        /\ \A b \in 0 .. ALen(edges) - 2 :
              IF b \in DOMAIN trace.y.nz
              THEN /\ trace.y.nz[b][1] * n = trace.y.nz[b][2] * counted(b)
                   /\ 0 <= trace.y.nz[b][1]
                   /\ trace.y.nz[b][1] <= trace.y.nz[b][2]
              ELSE counted(b) = 0

\* the heights of trace sum to 1
HeightsSumToOne(trace) ==
    LET n == Len(df.rows)
        share == [b \in DOMAIN trace.y.nz |->
                     trace.y.nz[b][1] * (n \div trace.y.nz[b][2])]
    IN  SetSum(share, DOMAIN trace.y.nz) = n

\* C7: the height of bin i is (rows counted in bin i) / (rows of the
\* table), so it lies in [0, 1]; and when create_dist built the edges from
\* the same column, the heights sum to 1.
C7_HeightsAreDistribution ==
    (result.call = "create_dist" /\ ~IsError(result.ret)) =>
        /\ HeightsAreShares(result.ret.trace, result.ret.x_bar)
        /\ result.x_bar = NoArray => HeightsSumToOne(result.ret.trace)

\* C8: the trace list handed to the plotting call is the primary bar and
\* scatter, then (second_y_var given) the secondary scatter on y2 and bar,
\* then (categorical_var given) a scatter and a bar per distinct value in
\* order of first appearance; 2 + 2*[second] + 2*k traces in all; 'yaxis2'
\* is in the layout exactly when second_y_var is given; the scatter and the
\* bar of one series carry the same colour.
C8_TraceOrder ==
    pc = "plot" =>
        LET s == IF second_y_var # None THEN 1 ELSE 0
            first == SortedSeq(FirstRows)
            k == IF categorical_var # None THEN Len(first) ELSE 0
        IN  /\ Len(data) = 2 + 2 * s + 2 * k
            /\ data[1].type = "bar" /\ data[1].name = <<"Dist. ", "x">>
            /\ data[2].type = "scatter" /\ data[2].name = "x"
            /\ data[2].yaxis = <<"y", 1>>
            /\ s = 1 =>
                  /\ data[3].type = "scatter" /\ data[3].name = "y2"
                  /\ data[3].yaxis = <<"y", 2>>
                  /\ data[4].type = "bar" /\ data[4].name = <<"Dist. ", "y2">>
            /\ \A j \in 1 .. k :
                  /\ data[2 * s + 2 * j + 1].type = "scatter"
                  /\ data[2 * s + 2 * j + 1].name = df.rows[first[j]]["c"]
                  /\ data[2 * s + 2 * j + 2].type = "bar"
                  /\ data[2 * s + 2 * j + 2].name = df.rows[first[j]]["c"]
            /\ ("yaxis2" \in layout) <=> (s = 1)
            /\ \A i \in 1 .. Len(data) \div 2 :
                  data[2 * i - 1].marker = data[2 * i].marker

\* a figure with a secondary series and two or more categorical values,
\* which do not first appear in ascending order, is handed to the plot call
C8_Witness ==
    /\ pc = "plot"
    /\ second_y_var # None
    /\ categorical_var # None
    /\ Cardinality(CatValues) >= 2
    /\ df.rows[1]["c"] > df.rows[2]["c"]
    /\ Len(data) = 4 + 2 * Cardinality(CatValues)

====
